---- MODULE Spec2Model ----
(***************************************************************************)
(* A model of parallel.c: a Bloom filter built by an OpenMP parallel       *)
(* insert loop and measured by an OpenMP parallel query loop with a sum    *)
(* reduction.  The state is that of main(): the two loaded lists, the      *)
(* filter parameters m and k, the int array bitArray, the position of      *)
(* every worker of the two parallel loops and the evaluation counters.     *)
(***************************************************************************)
EXTENDS Integers, Sequences, FiniteSets, TLC

(***************************************************************************)
(* Bounds of the model.                                                    *)
(***************************************************************************)
\* largest number of words in the insert file
MaxInsert == 2
\* largest number of records in the query file
MaxQuery == 2
\* largest OpenMP team size (OMP_NUM_THREADS)
MaxThreads == 2
\* largest modulus the hash is checked for on its own
MaxModulus == 40
\* largest element count the sizing is checked for on its own
MaxExpected == 1000

\* "a" and "ab" as C strings (character codes, the terminating 0 left out).
\* With both inserted (m = 20) salt 0 of "a" and salt 5 of "ab" hash to the same
\* cell from different workers; "ab" alone (m = 10) hits one cell with two salts
Words == { <<97>>, <<97, 98>> }

\* records "<word> <bit>" a query file may hold; the bit is any int (%d)
QueryRecords == { << <<97, 98>>, 1 >>, << <<97>>, 0 >>, << <<97>>, 2 >> }

\* values of argc the program is started with
ArgCounts == {2, 3}

RECURSIVE SeqsUpTo(_, _)
\* all sequences over S of length 0..n: the files the loaders may find
SeqsUpTo(S, n) ==
    IF n = 0 THEN { <<>> }
    ELSE LET shorter == SeqsUpTo(S, n - 1)
         IN  shorter \cup { Append(s, x) : s \in { t \in shorter : Len(t) = n - 1 }, x \in S }

WordFiles == SeqsUpTo(Words, MaxInsert)
QueryFiles == SeqsUpTo(QueryRecords, MaxQuery)

(***************************************************************************)
(* unsigned int arithmetic (32 bits, wrapping).  A value is held as its    *)
(* two 16-bit halves, hi * 65536 + lo, so that no intermediate result      *)
(* leaves the range of TLC's integers.  Shifts drop the bits that      *)
(* leave the word, as the C operators do; shift counts are below 16.       *)
(***************************************************************************)
\* conversion of a non-negative int (a salt, a character) to unsigned int
ToUInt(v) == [hi |-> (v \div 65536) % 65536, lo |-> v % 65536]

ShiftLeft(x, n) ==
    [hi |-> ((x.hi * 2^n) + ((x.lo * 2^n) \div 65536)) % 65536,
     lo |-> (x.lo * 2^n) % 65536]

ShiftRight(x, n) ==
    [hi |-> x.hi \div 2^n,
     lo |-> (x.lo \div 2^n) + (x.hi % 2^n) * 2^(16 - n)]

RECURSIVE XorBits(_, _, _)
\* exclusive or of the n low bits of a and b
XorBits(a, b, n) ==
    IF n = 0 THEN 0
    ELSE ((a + b) % 2) + 2 * XorBits(a \div 2, b \div 2, n - 1)

BitXor(x, y) == [hi |-> XorBits(x.hi, y.hi, 16), lo |-> XorBits(x.lo, y.lo, 16)]

BitNot(x) == [hi |-> 65535 - x.hi, lo |-> 65535 - x.lo]

\* x % m for an int m >= 1 (converted to unsigned int by the C operator)
UIntMod(x, m) == ((x.hi % m) * (65536 % m) + (x.lo % m)) % m

(***************************************************************************)
(* APHashWithSalt.  A C string is a tuple of character codes; the C index  *)
(* i is the tuple index i + 1.                                             *)
(***************************************************************************)
\* one pass of the loop body for the character c at C index i
APHashStep(hash, c, i) ==
    IF i % 2 = 1
    THEN BitXor(hash, BitXor(BitXor(ShiftLeft(hash, 7), ToUInt(c)), ShiftRight(hash, 3)))
    ELSE BitXor(hash, BitNot(BitXor(BitXor(ShiftLeft(hash, 11), ToUInt(c)), ShiftRight(hash, 5))))

RECURSIVE APHashLoop(_, _, _)
\* the for loop from C index i on, hash the accumulator so far
APHashLoop(str, i, hash) ==
    IF i >= Len(str) THEN hash
    ELSE APHashLoop(str, i + 1, APHashStep(hash, str[i + 1], i))

\* the strings the hash is tabulated for: "", "a", "b", "aa", "ab", "ba", "bb"
\* (the words of the model among them)
HashStrings == SeqsUpTo({97, 98}, 2)

\* the salts the hash is tabulated for
Salts == 0 .. 9

\* the accumulator after the loop, for every string and salt of the model
\* (hash = salt before the loop, line 26)
HashBeforeMod == [str \in HashStrings, salt \in Salts |-> APHashLoop(str, 0, ToUInt(salt))]

\* a faulty hash: the accumulator is an int, and % of a negative int is negative
APHashWithSalt_signed(str, salt, m) ==
    LET x == HashBeforeMod[str, salt]
    IN  IF x.hi < 32768 THEN UIntMod(x, m)
        ELSE 0 - ((UIntMod(BitNot(x), m) + 1) % m)

\* line 41: hash % m
APHashWithSalt(str, salt, m) == UIntMod(HashBeforeMod[str, salt], m)

(***************************************************************************)
(* Sizing: calculateOptimalArraySize and the assignment of k in main.      *)
(* The doubles are carried as millionths: log(MAX_FP) / log(1/pow(2,       *)
(* log(2))) = 9.585058..., log(2) = 0.693147...                            *)
(***************************************************************************)
\* ceil((n * log(MAX_FP)) / log(1 / pow(2, log(2)))), converted to int
\* (9.585058 n is split as 9 n + 0.585058 n to keep the products in range)
calculateOptimalArraySize(n) == 9 * n + ((n * 585058 + 999999) \div 1000000)

\* a faulty hash count: log(2) converted to int before the product
HashCount_intLog(mm, n) == (mm \div n) * 0

\* (m / numToInsert) * log(2) for numToInsert # 0: the int quotient, times the
\* double, truncated by the assignment to the int k
HashCount(mm, n) == ((mm \div n) * 693147) \div 1000000

(***************************************************************************)
(* The state.                                                              *)
(***************************************************************************)
VARIABLES
    pc,             \* where main() is
    argc,           \* argument count of the run
    nthreads,       \* size of the OpenMP team of each parallel loop
    exitStatus,     \* << what main returned >>, empty before it returns
    sections,       \* the two omp sections of the load: "todo", "ok" or "failed"
    ppInsertWordListArray, numToInsert,
    queries, bits, querySize,
    m, k,
    bitArrayState,  \* "unallocated", "live" or "freed"
    bitArray,       \* the int cells, index 0..m-1
    heapImage,      \* the cells as malloc handed them over
    insDone,        \* per worker: iterations of the insert loop it has finished
    tstDone,        \* per worker: iterations of the query loop it has finished
    priv,           \* per worker: its private copies of the four reduction counters
    counts,         \* fPositive, fNegative, totalPositive, totalNegative of testBloomWithQueries
    printed         \* << the two rates testBloomWithQueries prints >>, empty before

vars == << pc, argc, nthreads, exitStatus, sections, ppInsertWordListArray, numToInsert,
           queries, bits, querySize, m, k, bitArrayState, bitArray, heapImage,
           insDone, tstDone, priv, counts, printed >>

Workers == 0 .. (nthreads - 1)

ZeroCounts == [fPositive |-> 0, fNegative |-> 0, totalPositive |-> 0, totalNegative |-> 0]

\* contents malloc may hand over for m ints: the block is not cleared, so the
\* cells hold whatever the heap held (three images stand for all of them)
HeapImages(mm) ==
    { [c \in 0 .. (mm - 1) |-> 0],
      [c \in 0 .. (mm - 1) |-> 2],
      [c \in 0 .. (mm - 1) |-> c % 3] }

Init ==
    /\ pc = "start"
    /\ argc \in ArgCounts
    /\ nthreads \in 1 .. MaxThreads
    /\ exitStatus = << >>
    /\ sections = [query |-> "todo", words |-> "todo"]
    /\ ppInsertWordListArray = <<>>
    /\ numToInsert = 0
    /\ queries = <<>>
    /\ bits = <<>>
    /\ querySize = 0
    /\ m = 0
    /\ k = 0
    /\ bitArrayState = "unallocated"
    /\ bitArray = <<>>
    /\ heapImage = <<>>
    /\ insDone = [w \in Workers |-> 0]
    /\ tstDone = [w \in Workers |-> 0]
    /\ priv = [w \in Workers |-> ZeroCounts]
    /\ counts = ZeroCounts
    /\ printed = << >>

(***************************************************************************)
(* main, up to the allocation of the filter.                               *)
(***************************************************************************)
\* lines 284-307: the argument check, then the fork of the two sections
CheckArgs ==
    /\ pc = "start"
    /\ IF argc # 3
       THEN pc' = "exited" /\ exitStatus' = << -1 >>
       ELSE pc' = "load" /\ exitStatus' = exitStatus
    /\ UNCHANGED << argc, nthreads, sections, ppInsertWordListArray, numToInsert, queries,
                    bits, querySize, m, k, bitArrayState, bitArray, heapImage, insDone,
                    tstDone, priv, counts, printed >>

\* readQuery: on a file that cannot be opened (or a failed malloc) it returns
\* with the buffers NULL and the length untouched
ReadQuery ==
    /\ pc = "load"
    /\ sections.query = "todo"
    /\ \/ /\ sections' = [sections EXCEPT !.query = "failed"]
          /\ UNCHANGED << queries, bits, querySize >>
       \/ \E file \in QueryFiles :
            /\ sections' = [sections EXCEPT !.query = "ok"]
            /\ queries' = [i \in 1 .. Len(file) |-> file[i][1]]
            /\ bits' = [i \in 1 .. Len(file) |-> file[i][2]]
            /\ querySize' = Len(file)
    /\ UNCHANGED << pc, argc, nthreads, exitStatus, ppInsertWordListArray, numToInsert, m, k,
                    bitArrayState, bitArray, heapImage, insDone, tstDone, priv, counts,
                    printed >>

\* readWordsFromFile: NULL on failure, else the words and their count
ReadWords ==
    /\ pc = "load"
    /\ sections.words = "todo"
    /\ \/ /\ sections' = [sections EXCEPT !.words = "failed"]
          /\ UNCHANGED << ppInsertWordListArray, numToInsert >>
       \/ \E file \in WordFiles :
            /\ sections' = [sections EXCEPT !.words = "ok"]
            /\ ppInsertWordListArray' = file
            /\ numToInsert' = Len(file)
    /\ UNCHANGED << pc, argc, nthreads, exitStatus, queries, bits, querySize, m, k,
                    bitArrayState, bitArray, heapImage, insDone, tstDone, priv, counts,
                    printed >>

\* lines 318-322: the end of the sections region, then the only check of a load
LoadJoin ==
    /\ pc = "load"
    /\ sections.query # "todo"
    /\ sections.words # "todo"
    /\ IF sections.words = "failed"
       THEN pc' = "exited" /\ exitStatus' = << -1 >>
       ELSE pc' = "size" /\ exitStatus' = exitStatus
    /\ UNCHANGED << argc, nthreads, sections, ppInsertWordListArray, numToInsert, queries,
                    bits, querySize, m, k, bitArrayState, bitArray, heapImage, insDone,
                    tstDone, priv, counts, printed >>

\* lines 329-331.  With numToInsert = 0 the int division m / numToInsert is
\* undefined: the process is killed by the division trap, or the quotient is
\* the 0 a non-trapping divide leaves
Size ==
    /\ pc = "size"
    /\ m' = calculateOptimalArraySize(numToInsert)
    /\ IF numToInsert = 0
       THEN \/ pc' = "killed" /\ k' = k
            \/ pc' = "alloc" /\ k' = 0
       ELSE pc' = "alloc" /\ k' = HashCount(m', numToInsert)
    /\ UNCHANGED << argc, nthreads, exitStatus, sections, ppInsertWordListArray, numToInsert,
                    queries, bits, querySize, bitArrayState, bitArray, heapImage, insDone,
                    tstDone, priv, counts, printed >>

\* lines 333-343: malloc of m ints (not cleared), the NULL check, and the fork
\* of the insert loop's team
Alloc ==
    /\ pc = "alloc"
    /\ \/ /\ pc' = "exited"
          /\ exitStatus' = << 1 >>
          /\ UNCHANGED << bitArrayState, bitArray, heapImage >>
       \/ \E image \in HeapImages(m) :
            /\ pc' = "insert"
            /\ bitArrayState' = "live"
            /\ bitArray' = image
            /\ heapImage' = image
            /\ exitStatus' = exitStatus
    /\ UNCHANGED << argc, nthreads, sections, ppInsertWordListArray, numToInsert, queries,
                    bits, querySize, m, k, insDone, tstDone, priv, counts, printed >>

(***************************************************************************)
(* insertWords: the collapsed (i, h) loop nest, schedule(static, 1).       *)
(***************************************************************************)
\* size of the collapsed iteration space
InsertIterations == numToInsert * k

\* schedule(static, 1): the logical iteration worker w runs as its j-th one
IterationOf(w, j) == w + j * nthreads

\* a faulty store: bitArray[hash] ^= 1, a read-modify-write that can clear a cell
StoreCell_xor(array, hash) ==
    [array EXCEPT ![hash] = IF @ % 2 = 0 THEN @ + 1 ELSE @ - 1]

\* a faulty store: bitArray[hash] = !bitArray[hash]
StoreCell_not(array, hash) == [array EXCEPT ![hash] = IF @ = 0 THEN 1 ELSE 0]

\* line 124: bitArray[hash] = 1, one unconditional store.  Two workers may
\* store to the same cell at once; both store the int 1 and the cell holds 1
StoreCell(array, hash) == [array EXCEPT ![hash] = 1]

\* a faulty body: the salts run from 1 to k, while lookUp probes 0 to k-1
InsertBody_saltFromOne(array, iter) ==
    LET i == iter \div k
        h == (iter % k) + 1
    IN  StoreCell(array, APHashWithSalt(ppInsertWordListArray[i + 1], h, m))

\* a faulty body: the store writes the element's number, not the constant 1,
\* so the last writer of a cell decides its value
InsertBody_storeIndex(array, iter) ==
    LET i == iter \div k
        h == iter % k
    IN  [array EXCEPT ![APHashWithSalt(ppInsertWordListArray[i + 1], h, m)] = i + 1]

\* a faulty body: the hash is taken modulo a size other than m
InsertBody_wrongModulus(array, iter) ==
    LET i == iter \div k
        h == iter % k
    IN  StoreCell(array, APHashWithSalt(ppInsertWordListArray[i + 1], h, m - 1))

\* lines 119-125 for one logical iteration: i and h from the collapsed index
InsertBody(array, iter) ==
    LET i == iter \div k
        h == iter % k
    IN  StoreCell(array, APHashWithSalt(ppInsertWordListArray[i + 1], h, m))

RECURSIVE SerialInsert(_, _)
\* the loop nest run in program order by one thread, from iteration iter on
SerialInsert(array, iter) ==
    IF iter >= InsertIterations THEN array
    ELSE SerialInsert(InsertBody(array, iter), iter + 1)

\* a worker of the team runs its next iteration; the team exists from the fork
\* on and works on the array as long as it is there
InsertStep(w) ==
    /\ pc \in {"insert", "test", "report", "free"}
    /\ bitArrayState = "live"
    /\ IterationOf(w, insDone[w]) < InsertIterations
    /\ bitArray' = InsertBody(bitArray, IterationOf(w, insDone[w]))
    /\ insDone' = [insDone EXCEPT ![w] = @ + 1]
    /\ UNCHANGED << pc, argc, nthreads, exitStatus, sections, ppInsertWordListArray,
                    numToInsert, queries, bits, querySize, m, k, bitArrayState, heapImage,
                    tstDone, priv, counts, printed >>

\* a faulty join (nowait): the master goes on when its own share is done
InsertJoined_master == IterationOf(0, insDone[0]) >= InsertIterations

\* a faulty join: the barrier opens when the first worker arrives
InsertJoined_any == \E w \in Workers : IterationOf(w, insDone[w]) >= InsertIterations

\* the barrier that ends the parallel for: every worker is out of iterations
InsertJoined == \A w \in Workers : IterationOf(w, insDone[w]) >= InsertIterations

\* line 126-127 and 343-352: the join, the return to main, and the entry of
\* testBloomWithQueries (lines 243-249): counters 0, private copies 0
InsertJoin ==
    /\ pc = "insert"
    /\ InsertJoined
    /\ pc' = "test"
    /\ counts' = ZeroCounts
    /\ priv' = [w \in Workers |-> ZeroCounts]
    /\ tstDone' = [w \in Workers |-> 0]
    /\ UNCHANGED << argc, nthreads, exitStatus, sections, ppInsertWordListArray, numToInsert,
                    queries, bits, querySize, m, k, bitArrayState, bitArray, heapImage,
                    insDone, printed >>

(***************************************************************************)
(* lookUp.                                                                 *)
(***************************************************************************)
RECURSIVE lookUpLoop(_, _, _, _, _)
\* the for loop from salt h on; line 162 is a logical and of two ints
lookUpLoop(word, array, mm, h, isPossiblyInSet) ==
    IF h >= k THEN isPossiblyInSet
    ELSE LET index == APHashWithSalt(word, h, mm)
         IN  lookUpLoop(word, array, mm, h + 1,
                        IF array[index] # 0 /\ isPossiblyInSet # 0 THEN 1 ELSE 0)

\* a faulty lookup: the loop starts at salt 1
lookUp_skipFirst(word, array, mm) == lookUpLoop(word, array, mm, 1, 1)

lookUp(word, array, mm) == lookUpLoop(word, array, mm, 0, 1)

(***************************************************************************)
(* testBloomWithQueries: the query loop, schedule(static, 1), with a sum   *)
(* reduction over the four counters.                                       *)
(***************************************************************************)
\* a faulty classification: a plain else, so every bit other than 1 counts as 0
Classify_else(c, expectedBit, lookupResult) ==
    IF expectedBit = 1
    THEN [c EXCEPT !.totalPositive = @ + 1,
                   !.fNegative = IF lookupResult = 0 THEN @ + 1 ELSE @]
    ELSE [c EXCEPT !.totalNegative = @ + 1,
                   !.fPositive = IF lookupResult = 1 THEN @ + 1 ELSE @]

\* a faulty classification: a miss counts as a false negative whatever the
\* ground-truth bit is
Classify_countAll(c, expectedBit, lookupResult) ==
    LET d == [c EXCEPT !.fNegative = IF lookupResult = 0 THEN @ + 1 ELSE @]
    IN  IF expectedBit = 1
        THEN [d EXCEPT !.totalPositive = @ + 1]
        ELSE IF expectedBit = 0
             THEN [d EXCEPT !.totalNegative = @ + 1,
                            !.fPositive = IF lookupResult = 1 THEN @ + 1 ELSE @]
             ELSE d

\* lines 258-269 on a worker's private counters
Classify(c, expectedBit, lookupResult) ==
    IF expectedBit = 1
    THEN [c EXCEPT !.totalPositive = @ + 1,
                   !.fNegative = IF lookupResult = 0 THEN @ + 1 ELSE @]
    ELSE IF expectedBit = 0
         THEN [c EXCEPT !.totalNegative = @ + 1,
                        !.fPositive = IF lookupResult = 1 THEN @ + 1 ELSE @]
         ELSE c

\* a faulty body: lookUp is handed a size other than the one the insert used
TestBody_wrongModulus(c, i) ==
    Classify(c, bits[i + 1], lookUp(queries[i + 1], bitArray, m - 1))

\* lines 250-271 for the logical iteration i
TestBody(c, i) == Classify(c, bits[i + 1], lookUp(queries[i + 1], bitArray, m))

RECURSIVE SerialTest(_, _)
\* the query loop run in program order by one thread, from iteration i on
SerialTest(c, i) ==
    IF i >= querySize THEN c
    ELSE SerialTest(TestBody(c, i), i + 1)

TestStep(w) ==
    /\ pc = "test"
    /\ IterationOf(w, tstDone[w]) < querySize
    /\ priv' = [priv EXCEPT ![w] = TestBody(@, IterationOf(w, tstDone[w]))]
    /\ tstDone' = [tstDone EXCEPT ![w] = @ + 1]
    /\ UNCHANGED << pc, argc, nthreads, exitStatus, sections, ppInsertWordListArray,
                    numToInsert, queries, bits, querySize, m, k, bitArrayState, bitArray,
                    heapImage, insDone, counts, printed >>

\* a faulty join: the barrier waits until every worker alone has run as many
\* iterations as there are records, which a team of two never does
TestJoined_allEach == \A w \in Workers : tstDone[w] >= querySize

\* the barrier that ends the query loop: every worker is out of iterations
TestJoined == \A w \in Workers : IterationOf(w, tstDone[w]) >= querySize

RECURSIVE SumPrivate(_, _)
\* the private copies of workers 0..w added up, counter by counter
SumPrivate(p, w) ==
    IF w < 0 THEN ZeroCounts
    ELSE LET rest == SumPrivate(p, w - 1)
         IN  [fPositive |-> rest.fPositive + p[w].fPositive,
              fNegative |-> rest.fNegative + p[w].fNegative,
              totalPositive |-> rest.totalPositive + p[w].totalPositive,
              totalNegative |-> rest.totalNegative + p[w].totalNegative]

\* a faulty reduction: only the master's private copy reaches the result
Reduce_master(orig, p) ==
    [fPositive |-> orig.fPositive + p[0].fPositive,
     fNegative |-> orig.fNegative + p[0].fNegative,
     totalPositive |-> orig.totalPositive + p[0].totalPositive,
     totalNegative |-> orig.totalNegative + p[0].totalNegative]

\* reduction(+: ...): the original value plus every private copy
Reduce(orig, p) ==
    LET sum == SumPrivate(p, nthreads - 1)
    IN  [fPositive |-> orig.fPositive + sum.fPositive,
         fNegative |-> orig.fNegative + sum.fNegative,
         totalPositive |-> orig.totalPositive + sum.totalPositive,
         totalNegative |-> orig.totalNegative + sum.totalNegative]

\* line 271: the end of the parallel for, where the reduction is combined
TestJoin ==
    /\ pc = "test"
    /\ TestJoined
    /\ pc' = "report"
    /\ counts' = Reduce(counts, priv)
    /\ UNCHANGED << argc, nthreads, exitStatus, sections, ppInsertWordListArray, numToInsert,
                    queries, bits, querySize, m, k, bitArrayState, bitArray, heapImage,
                    insDone, tstDone, priv, printed >>

\* a faulty rate: num * 100 / den in int arithmetic, which traps on den = 0
Rate_intDivision(num, den) ==
    IF den = 0
    THEN [kind |-> "trap", num |-> 0, den |-> 0]
    ELSE [kind |-> "number", num |-> num * 100, den |-> den]

\* (double)num / den * 100 as printf shows it: 0.0/0 is nan, x/0 is inf
Rate(num, den) ==
    IF den = 0
    THEN [kind |-> IF num = 0 THEN "nan" ELSE "inf", num |-> 0, den |-> 0]
    ELSE [kind |-> "number", num |-> num * 100, den |-> den]

\* lines 273-275
Report ==
    /\ pc = "report"
    /\ printed' = << [falseNegative |-> Rate(counts.fNegative, counts.totalPositive),
                      falsePositive |-> Rate(counts.fPositive, counts.totalNegative)] >>
    /\ pc' = "free"
    /\ UNCHANGED << argc, nthreads, exitStatus, sections, ppInsertWordListArray, numToInsert,
                    queries, bits, querySize, m, k, bitArrayState, bitArray, heapImage,
                    insDone, tstDone, priv, counts >>

\* lines 359-376: the buffers are freed and main returns 0
Free ==
    /\ pc = "free"
    /\ bitArrayState' = "freed"
    /\ bitArray' = <<>>
    /\ pc' = "exited"
    /\ exitStatus' = << 0 >>
    /\ UNCHANGED << argc, nthreads, sections, ppInsertWordListArray, numToInsert, queries,
                    bits, querySize, m, k, heapImage, insDone, tstDone, priv, counts,
                    printed >>

Next ==
    \/ CheckArgs \/ ReadQuery \/ ReadWords \/ LoadJoin \/ Size \/ Alloc
    \/ \E w \in Workers : InsertStep(w)
    \/ InsertJoin
    \/ \E w \in Workers : TestStep(w)
    \/ TestJoin \/ Report \/ Free

Spec == Init /\ [][Next]_vars

\* the steps of the initial thread and of the two load sections
MainStep ==
    \/ CheckArgs \/ ReadQuery \/ ReadWords \/ LoadJoin \/ Size \/ Alloc
    \/ InsertJoin \/ TestJoin \/ Report \/ Free

\* the program under a fair scheduler: a thread that can run its next step is
\* not held back for ever (the loops have no lock, no critical section and no
\* wait other than the barrier at their end)
\* (every step changes the variables its fairness condition is indexed by)
FairSpec ==
    /\ Spec
    /\ WF_<<pc, sections>>(MainStep)
    /\ \A w \in 0 .. (MaxThreads - 1) :
          /\ WF_insDone(w \in Workers /\ InsertStep(w))
          /\ WF_tstDone(w \in Workers /\ TestStep(w))

(***************************************************************************)
(* Properties.                                                             *)
(***************************************************************************)
\* insertWords has returned and the filter has not been freed
InsertReturned == pc \in {"test", "report", "free"}

\* malloc happened to hand over cleared memory
ZeroHeap == \A c \in DOMAIN heapImage : heapImage[c] = 0

\* the logical iteration iter of the insert loop has run
IterationDone(iter) == insDone[iter % nthreads] > iter \div nthreads

\* the cell the logical iteration iter of the insert loop stores to
CellOf(iter) == APHashWithSalt(ppInsertWordListArray[(iter \div k) + 1], iter % k, m)

\* C1: no false negatives.  Once insertWords has returned, lookUp on the same
\* array, m and k answers 1 for every element of the inserted list, for every
\* team size and every interleaving of the insert iterations.
C1_NoFalseNegatives ==
    InsertReturned =>
        \A i \in 1 .. numToInsert : lookUp(ppInsertWordListArray[i], bitArray, m) = 1

\* two different words went in through more than one worker, into cleared memory
C1_Witness ==
    /\ pc = "test"
    /\ nthreads > 1
    /\ k > 0
    /\ ZeroHeap
    /\ \E i, j \in 1 .. numToInsert : ppInsertWordListArray[i] # ppInsertWordListArray[j]

\* C2: race-insensitivity of insertion.  From the same array as malloc handed it
\* over and the same (elements, m, k), every team size and every interleaving,
\* concurrent stores to one cell included, ends with the array that one thread
\* running the loop nest in program order produces.
C2_RaceInsensitive ==
    InsertReturned => bitArray = SerialInsert(heapImage, 0)

\* the loop is over and two iterations of different workers stored to one cell
C2_Witness ==
    /\ pc = "test"
    /\ nthreads > 1
    /\ \E a, b \in 0 .. (InsertIterations - 1) :
          /\ a % nthreads # b % nthreads
          /\ CellOf(a) = CellOf(b)

\* C3: cell monotonicity.  In every step a cell that is set (non-zero, as lookUp
\* reads it) stays set, and a cell whose value changes becomes 1; this holds
\* from the allocation of the array until it is freed.
C3_CellMonotone ==
    [][ (bitArrayState = "live" /\ bitArrayState' = "live") =>
            \A c \in DOMAIN bitArray :
                /\ bitArray[c] # 0 => bitArray'[c] # 0
                /\ bitArray'[c] # bitArray[c] => bitArray'[c] = 1 ]_vars

\* mid-loop: a cell went from 0 to 1 and an iteration still to run stores to a
\* cell that is already 1
C3_Witness ==
    /\ pc = "insert"
    /\ \E c \in DOMAIN bitArray : heapImage[c] = 0 /\ bitArray[c] = 1
    /\ \E iter \in 0 .. (InsertIterations - 1) :
          ~IterationDone(iter) /\ bitArray[CellOf(iter)] = 1

\* C4: lookup monotonicity.  If lookUp answers 1 for a word on the array, it
\* still answers 1 after any further insert step on that array (same m, k).
C4_LookupMonotone ==
    [][ (bitArrayState = "live" /\ bitArrayState' = "live") =>
            \A x \in Words :
                lookUp(x, bitArray, m) = 1 => lookUp(x, bitArray', m) = 1 ]_vars

\* mid-loop on cleared memory: some word is already answered 1 and further
\* stores are still to come
C4_Witness ==
    /\ pc = "insert"
    /\ ZeroHeap
    /\ k > 0
    /\ \E x \in Words : lookUp(x, bitArray, m) = 1
    /\ \E iter \in 0 .. (InsertIterations - 1) : ~IterationDone(iter)

\* C5: insert/lookup phase separation.  Every step in which a worker of the
\* query loop runs lookUp starts in a state where every iteration of the insert
\* loop has run: the insert loop is joined before testBloomWithQueries starts.
C5_PhaseSeparation ==
    [][ (\E w \in Workers : tstDone'[w] > tstDone[w]) =>
            \A iter \in 0 .. (InsertIterations - 1) : IterationDone(iter) ]_vars

\* a lookup has run after an insert loop that several workers shared
C5_Witness ==
    /\ pc = "test"
    /\ nthreads > 1
    /\ InsertIterations > nthreads
    /\ \E w \in Workers : tstDone[w] > 0

\* C6: the evaluation counts do not depend on the interleaving.  For every
\* team size and every order of the query iterations, the four counters after
\* the reduction are those of one thread running the loop in program order.
C6_CountsAsSerial ==
    pc \in {"report", "free"} => counts = SerialTest(ZeroCounts, 0)

\* the reduction has combined non-zero private counters of two workers
C6_Witness ==
    /\ pc = "report"
    /\ \E v, w \in Workers :
          /\ v # w
          /\ priv[v] # ZeroCounts
          /\ priv[w] # ZeroCounts

\* C7: lookUp answers 1 exactly when the cell at hash(e, s, m) is set for every
\* salt s in 0..k-1, and 0 otherwise; with k = 0 it answers 1 for every word.
C7_LookUpIsAnd ==
    bitArrayState = "live" =>
        \A e \in Words :
            /\ lookUp(e, bitArray, m) \in {0, 1}
            /\ lookUp(e, bitArray, m) = 1 <=>
                  \A s \in 0 .. (k - 1) : bitArray[APHashWithSalt(e, s, m)] # 0

\* after the insert one word is answered 1 and another one 0
C7_Witness ==
    /\ pc = "test"
    /\ k > 0
    /\ \E e, f \in Words : lookUp(e, bitArray, m) = 1 /\ lookUp(f, bitArray, m) = 0

\* the degenerate case of C7: a live (empty) filter with k = 0, where lookUp
\* answers 1 for every word
C7_WitnessZeroK ==
    /\ pc = "test"
    /\ k = 0
    /\ querySize > 0
    /\ \A e \in Words : lookUp(e, bitArray, m) = 1

\* C8: classification.  After the evaluation falseNegatives is the number of
\* records with bit 1 and lookup 0, falsePositives the number with bit 0 and
\* lookup 1, totalPositive the number with bit 1, totalNegative the number with
\* bit 0; every record has been classified once.
C8_Classification ==
    pc \in {"report", "free"} =>
        LET Q == 1 .. querySize
            found(i) == lookUp(queries[i], bitArray, m)
        IN  /\ counts.fNegative = Cardinality({i \in Q : bits[i] = 1 /\ found(i) = 0})
            /\ counts.fPositive = Cardinality({i \in Q : bits[i] = 0 /\ found(i) = 1})
            /\ counts.totalPositive = Cardinality({i \in Q : bits[i] = 1})
            /\ counts.totalNegative = Cardinality({i \in Q : bits[i] = 0})
            /\ \A i \in Q : tstDone[(i - 1) % nthreads] > (i - 1) \div nthreads
            /\ \A w \in Workers : w + (tstDone[w] - 1) * nthreads < querySize

\* an evaluation with a false negative and a record whose bit is neither 0 nor 1
C8_Witness ==
    /\ pc = "report"
    /\ counts.fNegative > 0
    /\ \E i \in 1 .. querySize : bits[i] \notin {0, 1}

\* C9: zero-initialised filter.  When the insert phase begins every cell of the
\* freshly allocated array is 0.
C9_ZeroInitialised ==
    (pc = "insert" /\ \A w \in Workers : insDone[w] = 0) =>
        \A c \in DOMAIN bitArray : bitArray[c] = 0

\* C10: read-only query phase.  From the return of insertWords on, no step
\* changes a cell of the array until the step that frees it.
C10_ReadOnlyQueryPhase ==
    [][ (InsertReturned /\ bitArrayState' = "live") => bitArray' = bitArray ]_vars

\* lookups of two workers are under way against the filled array
C10_Witness ==
    /\ pc = "test"
    /\ k > 0
    /\ \E v, w \in Workers : v # w /\ tstDone[v] > 0 /\ tstDone[w] = 0 /\ w < querySize

\* main has run lines 329-331 (or was killed in them)
Sized ==
    \/ pc \in {"alloc", "insert", "test", "report", "free", "killed"}
    \/ pc = "exited" /\ exitStatus \in { << 0 >>, << 1 >> }

\* C11: fixed filter parameters.  Once the filter is sized, m >= 1, and no
\* later step changes m or k, so the insert loop and lookUp probe the same
\* cells for the same element.
C11_FixedParameters ==
    [][ /\ Sized' => m' >= 1
        /\ Sized => (m' = m /\ k' = k) ]_vars

\* the part of C11 that stands: m and k change only in the sizing step, and a
\* run with at least one word to insert has m >= 1 from then on
C11_FixedWhenNonEmpty ==
    [][ /\ (m' # m \/ k' # k) => pc = "size"
        /\ (Sized' /\ numToInsert >= 1) => m' >= 1 ]_vars

\* C12: hash range and in-bounds access.  For every tabulated string, every
\* salt and every modulus 1..MaxModulus, APHashWithSalt is in 0..modulus-1
\* (stated once, in the initial states); and on the live array every index the
\* insert loop stores to and every index lookUp reads for a query lies in
\* 0..m-1.
C12_HashInRange ==
    /\ pc = "start" =>
          \A str \in HashStrings, salt \in Salts, mm \in 1 .. MaxModulus :
              APHashWithSalt(str, salt, mm) \in 0 .. (mm - 1)
    /\ bitArrayState = "live" =>
          /\ DOMAIN bitArray = 0 .. (m - 1)
          /\ \A iter \in 0 .. (InsertIterations - 1) : CellOf(iter) \in 0 .. (m - 1)
          /\ \A i \in 1 .. querySize, s \in 0 .. (k - 1) :
                APHashWithSalt(queries[i], s, m) \in 0 .. (m - 1)

\* the insert loop has stored through hashes whose accumulator is above 2^31
\* (wrapped), and queries are about to be looked up
C12_Witness ==
    /\ pc = "test"
    /\ querySize > 0
    /\ \E iter \in 0 .. (InsertIterations - 1) :
          HashBeforeMod[ppInsertWordListArray[(iter \div k) + 1], iter % k].hi >= 32768

\* C13: empty input is handled.  A run whose insert file holds no word is not
\* killed by the division by numToInsert in the computation of k.
C13_EmptyInputHandled ==
    (sections.words = "ok" /\ numToInsert = 0) => pc # "killed"

\* C14: unreadable input fails the run.  A run that returns 0 has loaded both
\* files: after a failed load of either file main never returns 0.  (Stated
\* for the runs with at least one word to insert, which do not pass through
\* the division by numToInsert = 0.)
C14_UnreadableInputFails ==
    (pc = "exited" /\ exitStatus = << 0 >> /\ numToInsert >= 1) =>
        (sections.query = "ok" /\ sections.words = "ok")

\* the part of C14 that stands: a failed load of the insert file ends the run
\* with a non-zero status before the filter is sized
C14_WordsFailureFails ==
    (sections.words = "failed" /\ pc # "load") => (pc = "exited" /\ exitStatus = << -1 >>)

\* C15: rates with an empty class.  Once testBloomWithQueries has printed, the
\* false-negative rate is nan exactly when there is no positive record and the
\* false-positive rate is nan exactly when there is no negative record (an
\* empty query set gives both); otherwise the rate is a number, and main is on
\* its way to the normal exit.
C15_RatesDefined ==
    (pc = "free" \/ (pc = "exited" /\ exitStatus = << 0 >>)) =>
        /\ printed[1].falseNegative.kind = (IF counts.totalPositive = 0 THEN "nan" ELSE "number")
        /\ printed[1].falsePositive.kind = (IF counts.totalNegative = 0 THEN "nan" ELSE "number")

\* the rates were printed for a query set with negatives and no positive
C15_Witness ==
    /\ pc = "free"
    /\ counts.totalPositive = 0
    /\ counts.totalNegative > 0
    /\ printed[1].falseNegative.kind = "nan"

\* C16: hash count lower bound.  For every element count n in 1..MaxExpected,
\* with m = calculateOptimalArraySize(n) (9586 for n = 1000), the k the program
\* derives is at least 1 and equals floor((m / n) * ln 2) taken with the exact
\* quotient (ln 2 to three decimals, which decides the floor here); stated once
\* in the initial states, and for the m, k and numToInsert of every sized run.
C16_HashCountBound ==
    /\ pc = "start" =>
          \A n \in 1 .. MaxExpected :
              LET mm == calculateOptimalArraySize(n)
              IN  /\ HashCount(mm, n) >= 1
                  /\ HashCount(mm, n) = (mm * 693) \div (n * 1000)
                  /\ n = 1000 => mm = 9586
    /\ (Sized /\ numToInsert >= 1) =>
          /\ k >= 1
          /\ k = (m * 693) \div (numToInsert * 1000)

\* a run sized for more than one word
C16_Witness ==
    /\ pc = "alloc"
    /\ numToInsert > 1
    /\ m = calculateOptimalArraySize(numToInsert)
    /\ k = HashCount(m, numToInsert)

\* every query record labelled 1 names a word of the inserted list
PositivesInserted ==
    \A i \in 1 .. querySize :
        bits[i] = 1 => \E j \in 1 .. numToInsert : ppInsertWordListArray[j] = queries[i]

\* C17: end-to-end zero false negatives.  If every record labelled 1 names an
\* inserted word, then after the parallel insert, the join, the parallel
\* evaluation and the reduction fNegative is 0, in every interleaving of both
\* loops.
C17_NoFalseNegativeCount ==
    (pc \in {"report", "free"} /\ PositivesInserted) => counts.fNegative = 0

\* such a run on cleared memory, with several workers, two inserted words and
\* a positive record
C17_Witness ==
    /\ pc = "report"
    /\ nthreads > 1
    /\ numToInsert > 1
    /\ ZeroHeap
    /\ PositivesInserted
    /\ counts.totalPositive > 0

\* the cells some inserted (element, salt) pair hashes to
HashedCells ==
    { APHashWithSalt(ppInsertWordListArray[j], s, m) :
          j \in 1 .. numToInsert, s \in 0 .. (k - 1) }

\* C18: insert frame.  While the array lives, every cell that no inserted
\* (element, salt) pair hashes to holds the value malloc handed over, during
\* and after the insert loop; with k = 0 or no element the whole array does.
C18_InsertFrame ==
    bitArrayState = "live" =>
        /\ \A c \in (DOMAIN bitArray) \ HashedCells : bitArray[c] = heapImage[c]
        /\ (k = 0 \/ numToInsert = 0) => bitArray = heapImage

\* after the insert a cell outside the hashed ones still holds a leftover 2
\* and a hashed cell has changed
C18_Witness ==
    /\ pc = "test"
    /\ \E c \in DOMAIN bitArray : c \notin HashedCells /\ bitArray[c] = 2
    /\ \E d \in HashedCells : bitArray[d] # heapImage[d]

\* the evaluation loop has ended and its counters are final
Evaluated == pc \in {"report", "free"} \/ (pc = "exited" /\ exitStatus = << 0 >>)

\* C19: counter consistency.  After the evaluation of querySize records,
\* fPositive <= totalNegative, fNegative <= totalPositive and
\* totalPositive + totalNegative <= querySize, with equality exactly when
\* every ground-truth bit is 0 or 1.
C19_CounterConsistency ==
    Evaluated =>
        /\ counts.fPositive <= counts.totalNegative
        /\ counts.fNegative <= counts.totalPositive
        /\ counts.totalPositive + counts.totalNegative <= querySize
        /\ (counts.totalPositive + counts.totalNegative = querySize)
              <=> (\A i \in 1 .. querySize : bits[i] \in {0, 1})

\* an evaluation of two records, one with a bit that is neither 0 nor 1: it
\* is in no counter, the other one is a counted false positive
C19_Witness ==
    /\ pc = "report"
    /\ querySize = 2
    /\ \E i \in 1 .. querySize : bits[i] \notin {0, 1}
    /\ counts.totalPositive + counts.totalNegative = 1
    /\ counts.fPositive = 1

\* a worker that has iterations left in the running loop can take its next one
\* whatever the other workers have done
NeverBlocked ==
    \A w \in Workers :
        /\ (pc = "insert" /\ IterationOf(w, insDone[w]) < InsertIterations)
              => ENABLED InsertStep(w)
        /\ (pc = "test" /\ IterationOf(w, tstDone[w]) < querySize)
              => ENABLED TestStep(w)

\* main goes through the phases in program order: insert loop, query loop,
\* report, release, return
PhaseOrder ==
    /\ pc = "insert" => pc' \in {"insert", "test"}
    /\ pc = "test" => pc' \in {"test", "report"}
    /\ pc = "report" => pc' \in {"report", "free"}
    /\ pc = "free" => pc' \in {"free", "exited"}

\* C20: termination.  With at least one element and fair scheduling, a run
\* that has entered the insert loop ends with main's return 0, passing from the
\* insert loop to the query loop to the report in that order; a worker with
\* iterations left is never blocked, the only wait is the join of each loop.
C20_Termination ==
    /\ []NeverBlocked
    /\ [][PhaseOrder]_vars
    /\ (pc = "insert" /\ numToInsert >= 1) ~> (pc = "exited" /\ exitStatus = << 0 >>)

\* a run of two workers, each of which ran iterations of both loops, has
\* returned from main
C20_Witness ==
    /\ pc = "exited"
    /\ exitStatus = << 0 >>
    /\ nthreads = 2
    /\ numToInsert >= 1
    /\ \A w \in Workers : insDone[w] >= 1 /\ tstDone[w] >= 1

====
